---- MODULE Spec2Model ----
(***************************************************************************)
(* Payoff engine of debtbeat-mvp: lib/debtPlan.ts, calculatePlan.          *)
(*                                                                         *)
(* Money is held in micro-dollars (1 unit = 1e-6 USD), so that the three   *)
(* thresholds of the source are whole numbers: 1e-6 = 1, 0.001 = 1000 and  *)
(* 0.01 = 10000.  APRs are whole percents.  Monthly interest              *)
(* balance * (apr / 100 / 12) is rounded down to the unit.                 *)
(* A form field (a string in the source) is a record [kind, val]: kind     *)
(* "num" is a decimal string of value val, "empty" is "", "text" is a      *)
(* string parseFloat turns into NaN, "inf" is "Infinity", "grouped" is a   *)
(* decimal string with thousands separators ("1,000") whose value without  *)
(* the separators is val.                                                  *)
(* SpecCompare runs the engine several times in one behaviour, as the page *)
(* does, and keeps one earlier call to relate the results of two calls.    *)
(* SpecDemo runs buildSchedule of the demo page after calculatePlan on the *)
(* same arguments, SpecHome runs the calculatePlan of app/page.tsx, and    *)
(* SpecStore is DebtProvider of lib/debtStore with its localStorage entry. *)
(***************************************************************************)
EXTENDS Integers, Sequences, FiniteSets, TLC

VARIABLES
    debtsInput,          \* argument: Debt[] with string fields
    monthlyBudgetStr,    \* argument: string
    strategy,            \* argument: "warrior" | "rebel" | "wizard"
    pc,                  \* position inside calculatePlan
    monthlyBudget,       \* parsed budget
    debts,               \* cloneNumericDebts(debtsInput)
    workingDebts,        \* mutable working copy
    schedule,            \* ScheduleRow[]
    months,
    totalInterestAllTime,
    interestByIndex,
    minDueByIndex,
    totalPaymentByIndex,
    extraByIndex,
    leftover,
    priorityList,        \* indices of workingDebts in strategy order
    startBal,            \* startBal of each debt in the last applied month
    maxMonths,           \* const maxMonths, the safety cap of the run
    result,              \* returned value
    earlier,             \* an earlier call kept by the page: arguments and result
    state,               \* DebtProvider: the rendered DebtState
    initialized,         \* DebtProvider: the rendered initialized flag
    pending,             \* DebtProvider: queued setState / setInitialized updates
    effectDue,           \* DebtProvider: the persist effect is scheduled
    localStorage,        \* the entry under STORAGE_KEY
    providerPc,          \* DebtProvider: position in its life cycle
    session              \* what is remembered about this mount and the last

vars == << debtsInput, monthlyBudgetStr, strategy, pc, monthlyBudget, debts,
           workingDebts, schedule, months, totalInterestAllTime,
           interestByIndex, minDueByIndex, totalPaymentByIndex, extraByIndex,
           leftover, priorityList, startBal, maxMonths, result, earlier,
           state, initialized, pending, effectDue, localStorage, providerPc,
           session >>

\* the variables of DebtProvider
storeVars == << state, initialized, pending, effectDue, localStorage,
                providerPc, session >>

\* the variables of the payoff engines
engineVars == << debtsInput, monthlyBudgetStr, strategy, pc, monthlyBudget, debts,
                 workingDebts, schedule, months, totalInterestAllTime,
                 interestByIndex, minDueByIndex, totalPaymentByIndex,
                 extraByIndex, leftover, priorityList, startBal, maxMonths,
                 result, earlier >>

----------------------------------------------------------------------------
(* Bounds of the model *)

\* longest debt list given to calculatePlan
MaxDebts == 2

\* stands for MAX_MONTHS = 100 * 12 * 1000 of the source, scaled down
MAX_MONTHS == 6

\* the cap of the runs on the worked scenarios, above their longest plan
ScenarioMaxMonths == 24

\* the cap of the what-if runs, above their longest plan
WhatIfMaxMonths == 8

\* stands for maxMonths = 600 of buildSchedule, below the cap of calculatePlan
DemoMaxMonths == 4

\* stands for maxMonths = 600 of the Home page's calculatePlan
HomeMaxMonths == 6

\* setter calls of DebtProvider between two page loads
MaxCalls == 2

\* page loads (mounts of DebtProvider) in one behaviour
MaxSessions == 2

----------------------------------------------------------------------------
(* Thresholds of the source, in micro-dollars *)

\* 1e-6, tolerance of the minimums check
TOLERANCE == 1

\* 0.01, a balance, leftover or need at or below it counts as nothing
EPSILON == 10000

\* 0.001, an extra or a pass at or below it counts as nothing
DUST == 1000

----------------------------------------------------------------------------
(* Inputs *)

Num(n) == [kind |-> "num", val |-> n]

Empty == [kind |-> "empty", val |-> 0]

Text == [kind |-> "text", val |-> 0]

Inf == [kind |-> "inf", val |-> 0]

Grouped(n) == [kind |-> "grouped", val |-> n]

RawDebt(b, a, m) == [balance |-> b, apr |-> a, minPayment |-> m]

DebtChoices ==
    { RawDebt(Num(3000000),   Num(0),   Num(1000000)),
      RawDebt(Num(6000000),   Num(0),   Num(1000000)),
      RawDebt(Num(4000000),   Num(24),  Num(1000000)),
      RawDebt(Num(40000000),  Num(120), Num(1000000)),
      RawDebt(Num(30000000),  Num(0),   Num(3000000)),
      RawDebt(Num(500000000), Num(18),  Num(50000000)),
      RawDebt(Num(1008000),   Num(-5),  Num(1000000)),
      RawDebt(Num(5000),      Num(0),   Num(1000000)),
      RawDebt(Text,           Num(24),  Num(1000000)),
      RawDebt(Num(3000000),   Empty,    Num(-1000000)) }

BudgetChoices ==
    { Text, Inf, Empty, Num(0), Num(-1000000),
      Num(1000000), Num(1999998), Num(1999999), Num(2000000), Num(3000000),
      Num(40000000) }

Strategies == { "warrior", "rebel", "wizard" }

\* the worked scenarios: one debt of 1200 at 0% with minimum 100, budget 100
SingleDebtScenario ==
    [debts |-> << RawDebt(Num(1200000000), Num(0), Num(100000000)) >>,
     budget |-> Num(100000000)]

\* debt A of 100 and debt B of 1000, both at 0% with minimum 10, budget 50
TwoDebtScenario ==
    [debts |-> << RawDebt(Num(100000000), Num(0), Num(10000000)),
                  RawDebt(Num(1000000000), Num(0), Num(10000000)) >>,
     budget |-> Num(50000000)]

Scenarios == { SingleDebtScenario, TwoDebtScenario }

\* cards of the runs that are compared with one another
CompareDebtChoices ==
    { RawDebt(Num(2000000), Num(6),  Num(1000000)),
      RawDebt(Num(3000000), Num(7),  Num(3000000)),
      RawDebt(Num(3000000), Num(0),  Num(1000000)),
      RawDebt(Num(4000000), Num(24), Num(1000000)),
      RawDebt(Text,         Num(24), Num(1000000)),
      RawDebt(Num(3000000), Empty,   Num(-1000000)) }

CompareBudgetChoices == { Num(3000000), Num(5000000) }

CompareDebtLists == UNION { [1..n -> CompareDebtChoices] : n \in 1..MaxDebts }

\* cards and budgets of the what-if runs
WhatIfDebtChoices ==
    { RawDebt(Num(60000000),  Num(360), Num(3000000)),
      RawDebt(Num(100000000), Num(120), Num(5000000)),
      RawDebt(Num(15000000),  Num(60),  Num(3000000)),
      RawDebt(Num(3000000),   Num(0),   Num(1000000)) }

WhatIfBudgetChoices == { Num(48000000) }

\* budgets typed into the demo page, "1,000" among them
DemoBudgetChoices ==
    { Empty, Num(1000000), Num(1999999), Num(2000000), Num(3000000),
      Num(40000000), Grouped(1000000000) }

\* cards of the Home page: number inputs, so a field is a decimal string or
\* empty, and handleGeneratePlan passes on the cards with a positive balance
HomeDebtChoices ==
    { RawDebt(Num(3000000),  Num(0),  Num(1000000)),
      RawDebt(Num(1000000),  Num(0),  Num(1000000)),
      RawDebt(Num(10000000), Num(0),  Num(1000000)),
      RawDebt(Num(4000000),  Num(24), Num(1000000)),
      RawDebt(Num(40000000), Num(12), Num(2000000)),
      RawDebt(Num(5000),     Num(30), Num(1000000)),
      RawDebt(Num(3000000),  Empty,   Empty),
      RawDebt(Num(6000000),  Num(18), Num(0)) }

HomeBudgetChoices ==
    { Empty, Num(0), Num(1000000), Num(1999999), Num(2000000), Num(3000000),
      Num(40000000) }

HomeDebtLists == UNION { [1..n -> HomeDebtChoices] : n \in 1..MaxDebts }

\* positions of the extra-per-month slider
ExtraChoices == { 500000, 10000000 }

WhatIfDebtLists == UNION { [1..n -> WhatIfDebtChoices] : n \in 1..MaxDebts }

DebtLists == UNION { [1..n -> DebtChoices] : n \in 0..MaxDebts }

WithIds(list) == [i \in 1..Len(list) |->
                    [id |-> i, balance |-> list[i].balance,
                     apr |-> list[i].apr, minPayment |-> list[i].minPayment]]

----------------------------------------------------------------------------
(* Helpers *)

Max(a, b) == IF a >= b THEN a ELSE b

Min(a, b) == IF a <= b THEN a ELSE b

RECURSIVE SumSeq(_)
SumSeq(s) == IF s = << >> THEN 0 ELSE Head(s) + SumSeq(Tail(s))

Zeros(n) == [i \in 1..n |-> 0]

\* what parseFloat reads of a grouped string: the digits before the first
\* separator (values below one million dollars have one separator)
LeadGroup(n) == (n \div 1000000000) * 1000000

\* parseNum: parseFloat(value || "0"), anything not finite becomes 0
parseNum(value) ==
    IF value.kind = "num" THEN value.val
    ELSE IF value.kind = "grouped" THEN LeadGroup(value.val)
    ELSE 0

\* parseNumber of the demo page: the separators are removed before parseFloat
parseNumber(value) ==
    IF value.kind \in { "num", "grouped" } THEN value.val ELSE 0

\* cloneNumericDebts: parse and clamp each field, drop resolved/malformed debts
NumericDebt(d) == [id |-> d.id,
                   balance |-> Max(0, parseNum(d.balance)),
                   apr |-> Max(0, parseNum(d.apr)),
                   minPayment |-> Max(0, parseNum(d.minPayment))]

\* mutant: the filter forgets the minimum payment
PayableByBalance(d) == d.balance > 0

\* line 369
Payable(d) == d.balance > 0 /\ d.minPayment > 0

RECURSIVE FilterPayable(_)
FilterPayable(s) ==
    IF s = << >> THEN << >>
    ELSE IF Payable(Head(s)) THEN << Head(s) >> \o FilterPayable(Tail(s))
         ELSE FilterPayable(Tail(s))

\* mutant: every parsed debt is kept
cloneNumericDebtsUnfiltered(input) == [i \in 1..Len(input) |-> NumericDebt(input[i])]

\* lines 360-370
cloneNumericDebts(input) ==
    FilterPayable([i \in 1..Len(input) |-> NumericDebt(input[i])])

\* balance * (apr / 100 / 12), rounded down to the unit
Interest(balance, apr) ==
    (balance \div 1200) * apr + ((balance % 1200) * apr) \div 1200

\* mutant: the minimum is taken to be principal only
MinDuePrincipalOnly(d, interest) == Max(0, d.minPayment - interest)

\* Math.min(d.minPayment, d.balance + interest)
MinDue(d, interest) == Min(d.minPayment, d.balance + interest)

\* mutant: a debt stops being simulated once one minimum payment would clear it
ActiveAboveMinimum(d) == d.balance > d.minPayment

\* line 412 and the per-debt tests of the loop body
Active(d) == d.balance > EPSILON

\* mutant: only the first debt's minimum is counted
TotalMinFirstOnly(ds) == IF ds = << >> THEN 0 ELSE ds[1].minPayment

\* debts.reduce((sum, d) => sum + d.minPayment, 0)
TotalMin(ds) == SumSeq([i \in 1..Len(ds) |-> ds[i].minPayment])

TotalBalance(ds) == SumSeq([i \in 1..Len(ds) |-> ds[i].balance])

----------------------------------------------------------------------------
(* Strategy order of the month: priorityList.sort(...) *)

PriorityItem(ds, i) == [i |-> i, balance |-> ds[i].balance, apr |-> ds[i].apr,
                        interest |-> Interest(ds[i].balance, ds[i].apr)]

\* mutant: warrior ranks the largest balance first
CompareWarriorLargestFirst(strat, a, b) ==
    CASE strat = "warrior" ->
           IF a.balance # b.balance THEN b.balance - a.balance ELSE b.apr - a.apr
      [] strat = "rebel" ->
           IF b.apr # a.apr THEN b.apr - a.apr ELSE b.balance - a.balance
      [] strat = "wizard" ->
           IF b.interest # a.interest THEN b.interest - a.interest ELSE b.apr - a.apr
      [] OTHER -> 0

\* the comparator: negative when a is ranked before b
Compare(strat, a, b) ==
    CASE strat = "warrior" ->
           IF a.balance # b.balance THEN a.balance - b.balance ELSE b.apr - a.apr
      [] strat = "rebel" ->
           IF b.apr # a.apr THEN b.apr - a.apr ELSE b.balance - a.balance
      [] strat = "wizard" ->
           IF b.interest # a.interest THEN b.interest - a.interest ELSE b.apr - a.apr
      [] OTHER -> 0

\* mutant: the item is put behind everything it should precede
RECURSIVE InsertItemBehind(_, _, _)
InsertItemBehind(strat, item, acc) ==
    IF acc = << >> THEN << item >>
    ELSE IF Compare(strat, item, Head(acc)) < 0
         THEN << Head(acc) >> \o InsertItemBehind(strat, item, Tail(acc))
         ELSE << item >> \o acc

RECURSIVE InsertItem(_, _, _)
InsertItem(strat, x, sorted) ==
    IF sorted = << >> THEN << x >>
    ELSE IF Compare(strat, x, Head(sorted)) < 0 THEN << x >> \o sorted
         ELSE << Head(sorted) >> \o InsertItem(strat, x, Tail(sorted))

\* Array.prototype.sort is stable: equal items keep their index order
RECURSIVE SortItems(_, _, _)
SortItems(strat, items, acc) ==
    IF items = << >> THEN acc
    ELSE SortItems(strat, Tail(items), InsertItem(strat, Head(items), acc))

RECURSIVE ActiveItems(_, _)
ActiveItems(ds, i) ==
    IF i > Len(ds) THEN << >>
    ELSE IF Active(ds[i]) THEN << PriorityItem(ds, i) >> \o ActiveItems(ds, i + 1)
         ELSE ActiveItems(ds, i + 1)

\* mutant: the list is left in index order
PriorityListUnsorted(ds, strat) ==
    LET items == ActiveItems(ds, 1)
    IN  [k \in 1..Len(items) |-> items[k].i]

PriorityList(ds, strat) ==
    LET sorted == SortItems(strat, ActiveItems(ds, 1), << >>)
    IN  [k \in 1..Len(sorted) |-> sorted[k].i]

----------------------------------------------------------------------------
(* One pass of the leftover allocation: for (const item of priorityList) *)

\* mutant: the need leaves the month's interest out
MaxNeededNoInterest(d, interest, alreadyPaying) == d.balance - alreadyPaying

\* line 494
MaxNeeded(d, interest, alreadyPaying) == d.balance + interest - alreadyPaying

\* mutant: the whole leftover goes to the debt
ExtraAllLeftover(maxNeeded, left) == left

\* line 498
ExtraForThisDebt(maxNeeded, left) == Min(maxNeeded, left)

\* mutant: a debt takes at most half of what is left
AllocateToHalf(st, idx) ==
    LET d == workingDebts[idx]
        alreadyPaying == st.totalPayment[idx]
        maxNeeded == MaxNeeded(d, interestByIndex[idx], alreadyPaying)
        extraForThisDebt == Min(maxNeeded, (st.leftover + 1) \div 2)
    IN  IF d.balance <= EPSILON \/ st.leftover <= EPSILON THEN st
        ELSE IF maxNeeded <= EPSILON THEN st
        ELSE IF extraForThisDebt <= DUST THEN st
        ELSE [leftover |-> st.leftover - extraForThisDebt,
              totalPayment |-> [st.totalPayment EXCEPT ![idx] = alreadyPaying + extraForThisDebt],
              extra |-> [st.extra EXCEPT ![idx] = @ + extraForThisDebt],
              allocatedThisPass |-> st.allocatedThisPass + extraForThisDebt]

\* lines 487-506: one debt of the pass
AllocateTo(st, idx) ==
    LET d == workingDebts[idx]
        alreadyPaying == st.totalPayment[idx]
        maxNeeded == MaxNeeded(d, interestByIndex[idx], alreadyPaying)
        extraForThisDebt == ExtraForThisDebt(maxNeeded, st.leftover)
    IN  IF d.balance <= EPSILON \/ st.leftover <= EPSILON THEN st
        ELSE IF maxNeeded <= EPSILON THEN st
        ELSE IF extraForThisDebt <= DUST THEN st
        ELSE [leftover |-> st.leftover - extraForThisDebt,
              totalPayment |-> [st.totalPayment EXCEPT ![idx] = alreadyPaying + extraForThisDebt],
              extra |-> [st.extra EXCEPT ![idx] = @ + extraForThisDebt],
              allocatedThisPass |-> st.allocatedThisPass + extraForThisDebt]

RECURSIVE PassOver(_, _)
PassOver(list, st) ==
    IF list = << >> THEN st ELSE PassOver(Tail(list), AllocateTo(st, Head(list)))

----------------------------------------------------------------------------
(* Applying the month's payments *)

\* mutant: the whole payment is booked as principal
PrincipalIsPayment(totalPay, interest) == totalPay

\* line 523
PrincipalPaid(totalPay, interest) == Max(0, totalPay - interest)

\* mutant: the payment is taken off the balance before interest, no floor
NewBalanceNoInterest(start, interest, totalPay) == start - totalPay

\* lines 524-525
NewBalance(start, interest, totalPay) == Max(0, start + interest - totalPay)

\* mutant: the minimums are not taken off the budget
LeftoverWholeBudget(budget, sumMinDue) == budget

\* line 445
Leftover(budget, sumMinDue) == Max(0, budget - sumMinDue)

\* mutant: the month starts with nothing assigned
InitialPaymentNone(minDue) == 0

\* line 449: everyone starts the month with the minimum due
InitialPayment(minDue) == minDue

\* mutant: a budget of zero is let through
InvalidBudgetNegative(budget) == budget < 0

\* line 386; parseNum has already turned every non-finite budget into 0
InvalidBudget(budget) == budget <= 0

\* line 391
NoDebts(cloned) == Len(cloned) = 0

\* mutant: the tolerance is lost to >=
BelowMinimumsNoTolerance(totalMin, budget) == totalMin >= budget + TOLERANCE

\* line 396
BelowMinimums(totalMin, budget) == totalMin > budget + TOLERANCE

\* mutant: the cap is taken one month early
CapReachedEarly(m) == m >= maxMonths - 1

\* line 545
CapReached(m) == m >= maxMonths

\* mutant: the break compares the total with 1 instead of 0.01
PaidOffBelowOne(totalBalanceEnd) == totalBalanceEnd <= 100 * EPSILON

\* line 542
PaidOff(totalBalanceEnd) == totalBalanceEnd <= EPSILON

\* mutant: the working debts are the caller's objects, line 527 writes into them
CallerDebtsAliased(input, ds) ==
    [i \in 1..Len(input) |->
        IF \E k \in 1..Len(ds) : ds[k].id = input[i].id
        THEN [input[i] EXCEPT !.balance =
                 Num(ds[CHOOSE k \in 1..Len(ds) : ds[k].id = input[i].id].balance)]
        ELSE input[i]]

\* lines 362 and 403: the working debts are fresh objects, so the write of
\* line 527 to the working debts ds leaves the caller's list as it is
CallerDebts(input, ds) == input

ErrorResult(e) == [kind |-> "error", error |-> e]

\* mutant: the rows are numbered from zero
ScheduleRowFromZero(m, totalBalanceEnd, interestPaid, principalPaid) ==
    [month |-> m - 1, totalBalanceEnd |-> totalBalanceEnd,
     interestPaid |-> interestPaid, principalPaid |-> principalPaid]

\* lines 535-540: schedule.push({ month: months, ... })
ScheduleRow(m, totalBalanceEnd, interestPaid, principalPaid) ==
    [month |-> m, totalBalanceEnd |-> totalBalanceEnd,
     interestPaid |-> interestPaid, principalPaid |-> principalPaid]

\* mutant: the rows of the call before are still in the schedule
NewScheduleReused == schedule

\* line 405: const schedule: ScheduleRow[] = []
NewSchedule == << >>

LoopCondition == months < maxMonths /\ \E i \in 1..Len(workingDebts) : Active(workingDebts[i])

----------------------------------------------------------------------------
(* DebtProvider (lib/debtStore): values.  A JavaScript value that JSON can  *)
(* change is a record [t, v]: a finite number, NaN, or null.               *)

JsNum(n) == [t |-> "number", v |-> n]

NaN == [t |-> "nan", v |-> 0]

Null == [t |-> "null", v |-> 0]

\* a DashboardSummary of finite numbers
Summary(projectedMonths) == [t |-> "summary", v |-> projectedMonths]

\* lines 47-52
defaultState ==
    [debts |-> << >>, strategy |-> "warrior", extraBudget |-> JsNum(0),
     dashboardSummary |-> Null]

\* the entry under STORAGE_KEY: absent, a text JSON.parse rejects, or the
\* text of an object with the fields v
Missing == [t |-> "missing", v |-> << >>]

Unparsable == [t |-> "unparsable", v |-> << >>]

Json(fields) == [t |-> "json", v |-> fields]

\* JSON.stringify of a number: NaN (and Infinity) are written as null
StringifyNumber(x) == IF x.t = "nan" THEN Null ELSE x

\* JSON.stringify(state)
Stringify(s) ==
    Json([debts |-> s.debts, strategy |-> s.strategy,
          extraBudget |-> StringifyNumber(s.extraBudget),
          dashboardSummary |-> s.dashboardSummary])

\* mutant: the fields in memory win over the stored ones
MergeKeepsPrev(prev, parsed) == prev

\* { ...prev, ...parsed }: every field of parsed replaces the one of prev
Merge(prev, parsed) ==
    [debts |-> IF "debts" \in DOMAIN parsed THEN parsed.debts ELSE prev.debts,
     strategy |-> IF "strategy" \in DOMAIN parsed THEN parsed.strategy
                  ELSE prev.strategy,
     extraBudget |-> IF "extraBudget" \in DOMAIN parsed THEN parsed.extraBudget
                     ELSE prev.extraBudget,
     dashboardSummary |-> IF "dashboardSummary" \in DOMAIN parsed
                          THEN parsed.dashboardSummary
                          ELSE prev.dashboardSummary]

\* { ...prev, field: value } of the four setters
SetField(prev, field, value) ==
    [debts |-> IF field = "debts" THEN value ELSE prev.debts,
     strategy |-> IF field = "strategy" THEN value ELSE prev.strategy,
     extraBudget |-> IF field = "extraBudget" THEN value ELSE prev.extraBudget,
     dashboardSummary |-> IF field = "dashboardSummary" THEN value
                          ELSE prev.dashboardSummary]

\* queued updates: a setState updater, or setInitialized(true)
MergeUpdate(parsed) == [op |-> "merge", field |-> "", value |-> parsed]

SetUpdate(field, value) == [op |-> "set", field |-> field, value |-> value]

InitializedUpdate == [op |-> "initialized", field |-> "", value |-> TRUE]

\* the state after the queued updaters have run in order
RECURSIVE ApplyUpdates(_, _)
ApplyUpdates(st, queue) ==
    IF queue = << >> THEN st
    ELSE LET u == Head(queue)
             next == IF u.op = "merge" THEN Merge(st, u.value)
                     ELSE IF u.op = "set" THEN SetField(st, u.field, u.value)
                     ELSE st
         IN  ApplyUpdates(next, Tail(queue))

\* arguments the setters are called with
DebtsArgs == { WithIds(<< RawDebt(Num(3000000), Num(0), Num(1000000)) >>) }

StrategyArgs == { "rebel" }

ExtraBudgetArgs == { JsNum(500), NaN }

SummaryArgs == { Summary(12) }

\* what the browser holds under STORAGE_KEY when the page is first opened
StoredChoices ==
    { Missing, Unparsable,
      Json([strategy |-> "wizard"]),
      Stringify([debts |-> << >>, strategy |-> "rebel",
                 extraBudget |-> JsNum(250), dashboardSummary |-> Null]) }

\* nothing is remembered of an earlier mount
NoSession ==
    [number |-> 0, calls |-> 0, load |-> "none", storedAtMount |-> Missing,
     lastWrite |-> "none", settledBefore |-> FALSE, stateBefore |-> defaultState]

\* the provider is not mounted
ProviderUnmounted ==
    /\ state = defaultState
    /\ initialized = FALSE
    /\ pending = << >>
    /\ effectDue = FALSE
    /\ localStorage = Missing
    /\ providerPc = "unmounted"
    /\ session = NoSession

----------------------------------------------------------------------------
(* calculatePlan *)

Init ==
    /\ debtsInput \in { WithIds(l) : l \in DebtLists }
    /\ monthlyBudgetStr \in BudgetChoices
    /\ strategy \in Strategies
    /\ pc = "start"
    /\ monthlyBudget = 0
    /\ debts = << >>
    /\ workingDebts = << >>
    /\ schedule = << >>
    /\ months = 0
    /\ totalInterestAllTime = 0
    /\ interestByIndex = << >>
    /\ minDueByIndex = << >>
    /\ totalPaymentByIndex = << >>
    /\ extraByIndex = << >>
    /\ leftover = 0
    /\ priorityList = << >>
    /\ startBal = << >>
    /\ maxMonths = MAX_MONTHS
    /\ result = [kind |-> "none"]
    /\ earlier = [kind |-> "none"]
    /\ ProviderUnmounted

\* the same call on one of the worked scenarios
InitScenario ==
    /\ \E sc \in Scenarios :
          /\ debtsInput = WithIds(sc.debts)
          /\ monthlyBudgetStr = sc.budget
    /\ strategy \in Strategies
    /\ pc = "start"
    /\ monthlyBudget = 0
    /\ debts = << >>
    /\ workingDebts = << >>
    /\ schedule = << >>
    /\ months = 0
    /\ totalInterestAllTime = 0
    /\ interestByIndex = << >>
    /\ minDueByIndex = << >>
    /\ totalPaymentByIndex = << >>
    /\ extraByIndex = << >>
    /\ leftover = 0
    /\ priorityList = << >>
    /\ startBal = << >>
    /\ maxMonths = ScenarioMaxMonths
    /\ result = [kind |-> "none"]
    /\ earlier = [kind |-> "none"]
    /\ ProviderUnmounted

\* lines 385-410: parse, validate, copy
Validate ==
    /\ pc = "start"
    /\ LET budget == parseNum(monthlyBudgetStr)
           cloned == cloneNumericDebts(debtsInput)
       IN  /\ monthlyBudget' = budget
           /\ IF InvalidBudget(budget)
              THEN /\ result' = ErrorResult("positive_budget")
                   /\ pc' = "done"
                   /\ UNCHANGED << debts, workingDebts >>
              ELSE IF NoDebts(cloned)
              THEN /\ result' = ErrorResult("no_debts")
                   /\ pc' = "done"
                   /\ debts' = cloned
                   /\ UNCHANGED workingDebts
              ELSE IF BelowMinimums(TotalMin(cloned), budget)
              THEN /\ result' = ErrorResult("below_minimums")
                   /\ pc' = "done"
                   /\ debts' = cloned
                   /\ UNCHANGED workingDebts
              ELSE /\ debts' = cloned
                   /\ workingDebts' = cloned
                   /\ pc' = "loop"
                   /\ UNCHANGED result
           /\ schedule' = NewSchedule
           /\ months' = 0
           /\ totalInterestAllTime' = 0
    /\ UNCHANGED << storeVars, earlier, maxMonths, debtsInput, monthlyBudgetStr, strategy,
                    interestByIndex, minDueByIndex,
                    totalPaymentByIndex, extraByIndex, leftover, priorityList,
                    startBal >>

\* lines 412-482: enter the month, interest and minimum due, strategy order
BeginMonth ==
    /\ pc = "loop"
    /\ LoopCondition
    /\ LET n == Len(workingDebts)
           interest == [i \in 1..n |->
                          IF Active(workingDebts[i])
                          THEN Interest(workingDebts[i].balance, workingDebts[i].apr)
                          ELSE 0]
           minDue == [i \in 1..n |->
                          IF Active(workingDebts[i])
                          THEN MinDue(workingDebts[i], interest[i])
                          ELSE 0]
       IN  /\ months' = months + 1
           /\ interestByIndex' = interest
           /\ minDueByIndex' = minDue
           /\ leftover' = Leftover(monthlyBudget, SumSeq(minDue))
           /\ totalPaymentByIndex' = [i \in 1..n |-> InitialPayment(minDue[i])]
           /\ extraByIndex' = Zeros(n)
           /\ priorityList' = PriorityList(workingDebts, strategy)
    /\ pc' = "allocate"
    /\ UNCHANGED << storeVars, earlier, maxMonths, debtsInput, monthlyBudgetStr, strategy, monthlyBudget, debts,
                    workingDebts, schedule, totalInterestAllTime, startBal, result >>

\* lines 484-512: one iteration of while (leftover > 0.01)
AllocatePass ==
    /\ pc = "allocate"
    /\ leftover > EPSILON
    /\ LET st == PassOver(priorityList,
                          [leftover |-> leftover,
                           totalPayment |-> totalPaymentByIndex,
                           extra |-> extraByIndex,
                           allocatedThisPass |-> 0])
       IN  /\ leftover' = st.leftover
           /\ totalPaymentByIndex' = st.totalPayment
           /\ extraByIndex' = st.extra
           /\ pc' = IF st.allocatedThisPass <= DUST THEN "apply" ELSE "allocate"
    /\ UNCHANGED << storeVars, earlier, maxMonths, debtsInput, monthlyBudgetStr, strategy, monthlyBudget, debts,
                    workingDebts, schedule, months, totalInterestAllTime,
                    interestByIndex, minDueByIndex, priorityList, startBal, result >>

\* line 484: the while condition fails
AllocateDone ==
    /\ pc = "allocate"
    /\ leftover <= EPSILON
    /\ pc' = "apply"
    /\ UNCHANGED << storeVars, earlier, maxMonths, debtsInput, monthlyBudgetStr, strategy, monthlyBudget, debts,
                    workingDebts, schedule, months, totalInterestAllTime,
                    interestByIndex, minDueByIndex, totalPaymentByIndex,
                    extraByIndex, leftover, priorityList, startBal, result >>

\* lines 514-542: apply payments, record the row, break when paid off
ApplyPayments ==
    /\ pc = "apply"
    /\ LET n == Len(workingDebts)
           newBalances == [i \in 1..n |->
                              NewBalance(workingDebts[i].balance, interestByIndex[i],
                                         totalPaymentByIndex[i])]
           principal == [i \in 1..n |->
                              PrincipalPaid(totalPaymentByIndex[i], interestByIndex[i])]
           totalBalanceEnd == SumSeq(newBalances)
           interestThisMonth == SumSeq(interestByIndex)
       IN  /\ startBal' = [i \in 1..n |-> workingDebts[i].balance]
           /\ workingDebts' = [i \in 1..n |->
                                 [workingDebts[i] EXCEPT !.balance = newBalances[i]]]
           /\ totalInterestAllTime' = totalInterestAllTime + interestThisMonth
           /\ schedule' = Append(schedule,
                                 ScheduleRow(months, totalBalanceEnd, interestThisMonth,
                                             SumSeq(principal)))
           /\ debtsInput' = CallerDebts(debtsInput,
                                        [i \in 1..n |->
                                           [workingDebts[i] EXCEPT !.balance = newBalances[i]]])
           /\ pc' = IF PaidOff(totalBalanceEnd) THEN "return" ELSE "loop"
    /\ UNCHANGED << storeVars, earlier, maxMonths, monthlyBudgetStr, strategy, monthlyBudget, debts,
                    months, interestByIndex, minDueByIndex, totalPaymentByIndex,
                    extraByIndex, leftover, priorityList, result >>

\* lines 545-556: after the loop (condition false, or break)
Return ==
    /\ \/ pc = "return"
       \/ pc = "loop" /\ ~LoopCondition
    /\ result' = IF CapReached(months)
                 THEN ErrorResult("cap")
                 ELSE [kind |-> "ok", months |-> months,
                       totalInterest |-> totalInterestAllTime,
                       schedule |-> schedule, strategyUsed |-> strategy]
    /\ pc' = "done"
    /\ UNCHANGED << storeVars, earlier, maxMonths, debtsInput, monthlyBudgetStr, strategy, monthlyBudget, debts,
                    workingDebts, schedule, months, totalInterestAllTime,
                    interestByIndex, minDueByIndex, totalPaymentByIndex,
                    extraByIndex, leftover, priorityList, startBal >>

Next ==
    \/ Validate
    \/ BeginMonth
    \/ AllocatePass
    \/ AllocateDone
    \/ ApplyPayments
    \/ Return

Spec == Init /\ [][Next]_vars

\* the list without card i (handleRemoveCard)
RemoveCard(list, i) == [k \in 1..(Len(list) - 1) |-> IF k < i THEN list[k] ELSE list[k + 1]]

\* what the page keeps of a finished call
CallRecord ==
    [kind |-> "call", debts |-> debtsInput, budget |-> monthlyBudgetStr,
     strategy |-> strategy, result |-> result,
     balances |-> [i \in 1..Len(workingDebts) |-> workingDebts[i].balance]]

\* the page runs the engine again on the same budget: after the user picked
\* a strategy or removed a card, or for the comparison with another strategy
Reinvoke ==
    /\ pc = "done"
    /\ earlier' \in { earlier, CallRecord }
    /\ strategy' \in Strategies
    /\ debtsInput' \in { debtsInput } \cup { RemoveCard(debtsInput, i) : i \in 1..Len(debtsInput) }
    /\ result' = [kind |-> "none"]
    /\ pc' = "start"
    /\ UNCHANGED << storeVars, maxMonths, monthlyBudgetStr, monthlyBudget, debts, workingDebts,
                    schedule, months, totalInterestAllTime, interestByIndex,
                    minDueByIndex, totalPaymentByIndex, extraByIndex, leftover,
                    priorityList, startBal >>

\* mutant: the extra is taken off the budget
WithExtraTakenOff(budgetStr, extraPerMonth) == Num(parseNum(budgetStr) - extraPerMonth)

\* lastBudgetUsed + extraPerMonth, handed to runPlanSafe which passes
\* budget.toString() to calculatePlan
WithExtra(budgetStr, extraPerMonth) == Num(parseNum(budgetStr) + extraPerMonth)

\* whatIfSummary: after a successful plan the page runs the same debts and
\* strategy again with the extra added to the budget
WhatIf ==
    /\ pc = "done"
    /\ result.kind = "ok"
    /\ earlier.kind = "none"
    /\ \E extraPerMonth \in ExtraChoices :
          monthlyBudgetStr' = WithExtra(monthlyBudgetStr, extraPerMonth)
    /\ earlier' = CallRecord
    /\ result' = [kind |-> "none"]
    /\ pc' = "start"
    /\ UNCHANGED << storeVars, maxMonths, debtsInput, strategy, monthlyBudget, debts, workingDebts,
                    schedule, months, totalInterestAllTime, interestByIndex,
                    minDueByIndex, totalPaymentByIndex, extraByIndex, leftover,
                    priorityList, startBal >>

InitWhatIf ==
    /\ debtsInput \in { WithIds(l) : l \in WhatIfDebtLists }
    /\ monthlyBudgetStr \in WhatIfBudgetChoices
    /\ strategy \in Strategies
    /\ pc = "start"
    /\ monthlyBudget = 0
    /\ debts = << >>
    /\ workingDebts = << >>
    /\ schedule = << >>
    /\ months = 0
    /\ totalInterestAllTime = 0
    /\ interestByIndex = << >>
    /\ minDueByIndex = << >>
    /\ totalPaymentByIndex = << >>
    /\ extraByIndex = << >>
    /\ leftover = 0
    /\ priorityList = << >>
    /\ startBal = << >>
    /\ maxMonths = WhatIfMaxMonths
    /\ result = [kind |-> "none"]
    /\ earlier = [kind |-> "none"]
    /\ ProviderUnmounted

NextWhatIf ==
    \/ Validate
    \/ BeginMonth
    \/ AllocatePass
    \/ AllocateDone
    \/ ApplyPayments
    \/ Return
    \/ WhatIf

SpecWhatIf == InitWhatIf /\ [][NextWhatIf]_vars

InitCompare ==
    /\ debtsInput \in { WithIds(l) : l \in CompareDebtLists }
    /\ monthlyBudgetStr \in CompareBudgetChoices
    /\ strategy \in Strategies
    /\ pc = "start"
    /\ monthlyBudget = 0
    /\ debts = << >>
    /\ workingDebts = << >>
    /\ schedule = << >>
    /\ months = 0
    /\ totalInterestAllTime = 0
    /\ interestByIndex = << >>
    /\ minDueByIndex = << >>
    /\ totalPaymentByIndex = << >>
    /\ extraByIndex = << >>
    /\ leftover = 0
    /\ priorityList = << >>
    /\ startBal = << >>
    /\ maxMonths = MAX_MONTHS
    /\ result = [kind |-> "none"]
    /\ earlier = [kind |-> "none"]
    /\ ProviderUnmounted

NextCompare ==
    \/ Validate
    \/ BeginMonth
    \/ AllocatePass
    \/ AllocateDone
    \/ ApplyPayments
    \/ Return
    \/ Reinvoke

SpecCompare == InitCompare /\ [][NextCompare]_vars

SpecScenario == InitScenario /\ [][Next]_vars

----------------------------------------------------------------------------
(* calculatePlan of the Home page (app/page.tsx), the variant that picks   *)
(* one target with pickNextDebtIndex.  bal, aprs and mins are the fields   *)
(* of workingDebts; remainingBudget is leftover.                           *)

\* parseFloat(value || "0") with the NaN replaced by 0 where it is used
\* (isNaN(v) ? 0 : v, aprs[i] || 0)
parseFloatOrZero(value) ==
    IF value.kind = "num" THEN value.val
    ELSE IF value.kind = "grouped" THEN LeadGroup(value.val)
    ELSE 0

\* !Number.isFinite(monthlyBudget) || monthlyBudget <= 0
HomeInvalidBudget(budgetStr) ==
    \/ budgetStr.kind \in { "text", "inf" }
    \/ parseFloatOrZero(budgetStr) <= 0

\* balances, aprs and mins, one entry per card of the input
HomeArrays(input) ==
    [i \in 1..Len(input) |->
        [id |-> input[i].id,
         balance |-> parseFloatOrZero(input[i].balance),
         apr |-> parseFloatOrZero(input[i].apr),
         minPayment |-> parseFloatOrZero(input[i].minPayment)]]

\* score = apr * 2 + balance / 1000, compared without leaving 32 bits:
\* two points of APR outweigh any difference of the balances
ScoreAbove(a, b) ==
    IF a.apr - b.apr >= 2 THEN TRUE
    ELSE IF a.apr - b.apr <= -2 THEN FALSE
    ELSE (a.apr - b.apr) * 2000000000 > b.balance - a.balance

\* a sorts strictly before b in the strategy's order
HomeBefore(strat, a, b) ==
    IF strat = "warrior" THEN a.balance < b.balance
    ELSE IF strat = "rebel" THEN a.apr > b.apr
    ELSE ScoreAbove(a, b)

\* pickNextDebtIndex: first of the stable sort of the debts with balance > 0
pickNextDebtIndex(ds, strat) ==
    LET alive == { i \in 1..Len(ds) : ds[i].balance > 0 }
    IN  IF alive = { } THEN 0
        ELSE CHOOSE i \in alive :
                /\ \A j \in alive : ~HomeBefore(strat, ds[j], ds[i])
                /\ \A j \in alive : j < i => HomeBefore(strat, ds[i], ds[j])

\* Math.min(bal[i] + interest, minPay)
HomeMinimumPaid(balance, interest, min) == Min(balance + interest, Max(0, min))

\* principal of the minimum payment: first cover interest, then principal
HomePrincipal(balance, interest, min) ==
    Max(0, HomeMinimumPaid(balance, interest, min) - interest)

\* bal[i] = Math.max(0, bal[i] + interest - principal)
HomeBalanceAfterMinimum(balance, interest, min) ==
    Max(0, balance + interest - HomePrincipal(balance, interest, min))

\* monthlyBudget - mins.reduce(...)
HomeRemainingBudget(budget, ds) == budget - TotalMin(ds)

HomeLoopCondition ==
    months < maxMonths /\ \E i \in 1..Len(workingDebts) : Active(workingDebts[i])

\* while (remainingBudget > 0.01 && bal.some((b) => b > 0.01))
HomeExtraCondition ==
    leftover > EPSILON /\ \E i \in 1..Len(workingDebts) : Active(workingDebts[i])

\* lines 121-145: parse, validate, copy
HomeValidate ==
    /\ pc = "home_start"
    /\ LET arrays == HomeArrays(debtsInput)
           budget == parseFloatOrZero(monthlyBudgetStr)
       IN  /\ monthlyBudget' = budget
           /\ IF HomeInvalidBudget(monthlyBudgetStr)
              THEN /\ result' = ErrorResult("positive_budget")
                   /\ pc' = "home_done"
                   /\ UNCHANGED << debts, workingDebts >>
              ELSE IF TotalMin(arrays) > budget + TOLERANCE
              THEN /\ result' = ErrorResult("below_minimums")
                   /\ pc' = "home_done"
                   /\ debts' = arrays
                   /\ UNCHANGED workingDebts
              ELSE /\ debts' = arrays
                   /\ workingDebts' = arrays
                   /\ pc' = "home_loop"
                   /\ UNCHANGED result
    /\ schedule' = << >>
    /\ months' = 0
    /\ totalInterestAllTime' = 0
    /\ UNCHANGED << storeVars, earlier, maxMonths, debtsInput, monthlyBudgetStr, strategy,
                    interestByIndex, minDueByIndex, totalPaymentByIndex,
                    extraByIndex, leftover, priorityList, startBal >>

\* lines 147-172: enter the month, interest and minimum payment of every
\* card, the budget that remains for extra payments
HomeBeginMonth ==
    /\ pc = "home_loop"
    /\ HomeLoopCondition
    /\ LET n == Len(workingDebts)
           interest == [i \in 1..n |->
                          Interest(workingDebts[i].balance, workingDebts[i].apr)]
       IN  /\ months' = months + 1
           /\ startBal' = [i \in 1..n |-> workingDebts[i].balance]
           /\ interestByIndex' = interest
           /\ minDueByIndex' = [i \in 1..n |->
                                  HomeMinimumPaid(workingDebts[i].balance, interest[i],
                                                  workingDebts[i].minPayment)]
           /\ workingDebts' = [i \in 1..n |->
                                 [workingDebts[i] EXCEPT !.balance =
                                    HomeBalanceAfterMinimum(workingDebts[i].balance,
                                                            interest[i],
                                                            workingDebts[i].minPayment)]]
           /\ totalInterestAllTime' = totalInterestAllTime + SumSeq(interest)
           /\ leftover' = HomeRemainingBudget(monthlyBudget, workingDebts)
           /\ extraByIndex' = Zeros(n)
    /\ pc' = "home_extra"
    /\ UNCHANGED << storeVars, earlier, maxMonths, debtsInput, monthlyBudgetStr, strategy,
                    monthlyBudget, debts, schedule, totalPaymentByIndex,
                    priorityList, result >>

\* lines 175-185: one iteration of the extra-payment loop
HomeExtra ==
    /\ pc = "home_extra"
    /\ HomeExtraCondition
    /\ LET idx == pickNextDebtIndex(workingDebts, strategy)
           extra == Min(leftover, workingDebts[idx].balance)
       IN  /\ idx # 0
           /\ workingDebts' = [workingDebts EXCEPT ![idx].balance = @ - extra]
           /\ leftover' = leftover - extra
           /\ extraByIndex' = [extraByIndex EXCEPT ![idx] = @ + extra]
    /\ UNCHANGED << storeVars, earlier, maxMonths, debtsInput, monthlyBudgetStr, strategy,
                    pc, monthlyBudget, debts, schedule, months,
                    totalInterestAllTime, interestByIndex, minDueByIndex,
                    totalPaymentByIndex, priorityList, startBal, result >>

\* lines 175-196: the extra-payment loop is over, push the row, break when
\* paid off
HomeRecord ==
    /\ pc = "home_extra"
    /\ ~HomeExtraCondition
    /\ LET totalBalanceEnd == TotalBalance(workingDebts)
           interestThisMonth == SumSeq(interestByIndex)
       IN  /\ schedule' = Append(schedule,
                                 ScheduleRow(months, totalBalanceEnd, interestThisMonth,
                                             monthlyBudget - interestThisMonth))
           /\ pc' = IF totalBalanceEnd <= EPSILON THEN "home_return" ELSE "home_loop"
    /\ UNCHANGED << storeVars, earlier, maxMonths, debtsInput, monthlyBudgetStr, strategy,
                    monthlyBudget, debts, workingDebts, months,
                    totalInterestAllTime, interestByIndex, minDueByIndex,
                    totalPaymentByIndex, extraByIndex, leftover, priorityList,
                    startBal, result >>

\* lines 199-211: after the loop
HomeReturn ==
    /\ IF pc = "home_loop" THEN ~HomeLoopCondition ELSE pc = "home_return"
    /\ result' = IF months >= maxMonths
                 THEN ErrorResult("cap")
                 ELSE [kind |-> "ok", months |-> months,
                       totalInterest |-> totalInterestAllTime,
                       schedule |-> schedule, strategyUsed |-> strategy]
    /\ pc' = "home_done"
    /\ UNCHANGED << storeVars, earlier, maxMonths, debtsInput, monthlyBudgetStr, strategy,
                    monthlyBudget, debts, workingDebts, schedule, months,
                    totalInterestAllTime, interestByIndex, minDueByIndex,
                    totalPaymentByIndex, extraByIndex, leftover, priorityList,
                    startBal >>

InitHome ==
    /\ debtsInput \in { WithIds(l) : l \in HomeDebtLists }
    /\ monthlyBudgetStr \in HomeBudgetChoices
    /\ strategy \in Strategies
    /\ pc = "home_start"
    /\ monthlyBudget = 0
    /\ debts = << >>
    /\ workingDebts = << >>
    /\ schedule = << >>
    /\ months = 0
    /\ totalInterestAllTime = 0
    /\ interestByIndex = << >>
    /\ minDueByIndex = << >>
    /\ totalPaymentByIndex = << >>
    /\ extraByIndex = << >>
    /\ leftover = 0
    /\ priorityList = << >>
    /\ startBal = << >>
    /\ maxMonths = HomeMaxMonths
    /\ result = [kind |-> "none"]
    /\ earlier = [kind |-> "none"]
    /\ ProviderUnmounted

NextHome ==
    \/ HomeValidate
    \/ HomeBeginMonth
    \/ HomeExtra
    \/ HomeRecord
    \/ HomeReturn

SpecHome == InitHome /\ [][NextHome]_vars

----------------------------------------------------------------------------
(* buildSchedule of the demo page, run on the arguments of a finished      *)
(* calculatePlan call.  Its Maps keyed by debt id are the sequences        *)
(* interestByIndex, minDueByIndex, totalPaymentByIndex and extraByIndex,   *)
(* read at the position of the debt with that id.                          *)

\* cloneDebts: the same clamps and filter, on parseNumber
EditableToDebt(d) == [id |-> d.id,
                      balance |-> Max(0, parseNumber(d.balance)),
                      apr |-> Max(0, parseNumber(d.apr)),
                      minPayment |-> Max(0, parseNumber(d.minPayment))]

cloneDebts(editableDebts) ==
    FilterPayable([i \in 1..Len(editableDebts) |-> EditableToDebt(editableDebts[i])])

\* workingDebts.find((wd) => wd.id === p.id): position of the first match,
\* 0 when there is none
IndexOfId(ds, id) ==
    IF \E i \in 1..Len(ds) : ds[i].id = id
    THEN CHOOSE i \in 1..Len(ds) :
            ds[i].id = id /\ \A j \in 1..(i - 1) : ds[j].id # id
    ELSE 0

DemoPriorityItem(d) == [id |-> d.id, balance |-> d.balance, apr |-> d.apr,
                        interest |-> Interest(d.balance, d.apr)]

RECURSIVE DemoActiveItems(_, _)
DemoActiveItems(ds, i) ==
    IF i > Len(ds) THEN << >>
    ELSE IF Active(ds[i]) THEN << DemoPriorityItem(ds[i]) >> \o DemoActiveItems(ds, i + 1)
         ELSE DemoActiveItems(ds, i + 1)

\* the month's priority list, as debt ids
DemoPriorityList(ds, strat) ==
    LET sorted == SortItems(strat, DemoActiveItems(ds, 1), << >>)
    IN  [k \in 1..Len(sorted) |-> sorted[k].id]

\* one debt of the pass: for (const p of priorityList) { ... }
DemoAllocateTo(st, id) ==
    LET idx == IndexOfId(workingDebts, id)
    IN  IF st.leftover <= EPSILON THEN st
        ELSE IF idx = 0 THEN st
        ELSE LET d == workingDebts[idx]
                 alreadyPaying == st.totalPayment[idx]
                 maxNeeded == d.balance + interestByIndex[idx] - alreadyPaying
                 extraForThisDebt == Min(maxNeeded, st.leftover)
             IN  IF d.balance <= EPSILON THEN st
                 ELSE IF maxNeeded <= EPSILON THEN st
                 ELSE IF extraForThisDebt <= DUST THEN st
                 ELSE [leftover |-> st.leftover - extraForThisDebt,
                       totalPayment |-> [st.totalPayment EXCEPT
                                            ![idx] = alreadyPaying + extraForThisDebt],
                       extra |-> [st.extra EXCEPT ![idx] = @ + extraForThisDebt],
                       allocatedThisPass |-> st.allocatedThisPass + extraForThisDebt]

RECURSIVE DemoPassOver(_, _)
DemoPassOver(list, st) ==
    IF list = << >> THEN st ELSE DemoPassOver(Tail(list), DemoAllocateTo(st, Head(list)))

ScheduleMonth(month, totalPayment, totalInterest, totalPrincipal, totalBalanceStart, totalBalanceEnd) ==
    [monthIndex |-> month, totalPayment |-> totalPayment,
     totalInterest |-> totalInterest, totalPrincipal |-> totalPrincipal,
     totalBalanceStart |-> totalBalanceStart, totalBalanceEnd |-> totalBalanceEnd]

\* what buildSchedule returns
Rows(s) == [kind |-> "rows", schedule |-> s]

\* sumMinDue > monthlyBudget + 1e-6 inside the loop
MinimumsExceedBudget(sumMinDue, budget) == sumMinDue > budget + TOLERANCE

\* month <= maxMonths, and some debt is still active
DemoLoopCondition ==
    months < maxMonths /\ \E i \in 1..Len(workingDebts) : Active(workingDebts[i])

\* lines 85-94: parse, the two early returns, copy
BuildScheduleStart ==
    /\ pc = "done"
    /\ earlier.kind = "none"
    /\ earlier' = CallRecord
    /\ LET budget == Max(0, parseNumber(monthlyBudgetStr))
           cloned == cloneDebts(debtsInput)
       IN  /\ monthlyBudget' = budget
           /\ debts' = cloned
           /\ IF Len(cloned) = 0 \/ budget <= 0
              THEN /\ result' = Rows(<< >>)
                   /\ pc' = "bs_done"
                   /\ UNCHANGED workingDebts
              ELSE IF TotalMin(cloned) > budget + TOLERANCE
              THEN /\ result' = Rows(<< >>)
                   /\ pc' = "bs_done"
                   /\ UNCHANGED workingDebts
              ELSE /\ workingDebts' = cloned
                   /\ result' = [kind |-> "none"]
                   /\ pc' = "bs_loop"
    /\ schedule' = << >>
    /\ months' = 0
    /\ maxMonths' = DemoMaxMonths
    /\ UNCHANGED << storeVars, debtsInput, monthlyBudgetStr, strategy, totalInterestAllTime,
                    interestByIndex, minDueByIndex, totalPaymentByIndex,
                    extraByIndex, leftover, priorityList, startBal >>

\* lines 96-167: enter the month, interest and minimum due, the break on
\* the minimums, the strategy order
BuildScheduleMonth ==
    /\ pc = "bs_loop"
    /\ DemoLoopCondition
    /\ LET n == Len(workingDebts)
           interest == [i \in 1..n |->
                          IF Active(workingDebts[i])
                          THEN Interest(workingDebts[i].balance, workingDebts[i].apr)
                          ELSE 0]
           minDue == [i \in 1..n |->
                          IF Active(workingDebts[i])
                          THEN MinDue(workingDebts[i], interest[i])
                          ELSE 0]
           sumMinDue == SumSeq(minDue)
       IN  /\ months' = months + 1
           /\ interestByIndex' = interest
           /\ minDueByIndex' = minDue
           /\ IF MinimumsExceedBudget(sumMinDue, monthlyBudget)
              THEN /\ pc' = "bs_broke"
                   /\ UNCHANGED << leftover, totalPaymentByIndex, extraByIndex,
                                   priorityList >>
              ELSE /\ pc' = "bs_allocate"
                   /\ leftover' = Max(0, monthlyBudget - sumMinDue)
                   /\ totalPaymentByIndex' = minDue
                   /\ extraByIndex' = Zeros(n)
                   /\ priorityList' = DemoPriorityList(workingDebts, strategy)
    /\ UNCHANGED << storeVars, earlier, maxMonths, debtsInput, monthlyBudgetStr, strategy,
                    monthlyBudget, debts, workingDebts, schedule,
                    totalInterestAllTime, startBal, result >>

\* lines 169-194: one iteration of while (leftover > 0.01)
BuildScheduleAllocatePass ==
    /\ pc = "bs_allocate"
    /\ leftover > EPSILON
    /\ LET st == DemoPassOver(priorityList,
                              [leftover |-> leftover,
                               totalPayment |-> totalPaymentByIndex,
                               extra |-> extraByIndex,
                               allocatedThisPass |-> 0])
       IN  /\ leftover' = st.leftover
           /\ totalPaymentByIndex' = st.totalPayment
           /\ extraByIndex' = st.extra
           /\ pc' = IF st.allocatedThisPass <= DUST THEN "bs_apply" ELSE "bs_allocate"
    /\ UNCHANGED << storeVars, earlier, maxMonths, debtsInput, monthlyBudgetStr, strategy,
                    monthlyBudget, debts, workingDebts, schedule, months,
                    totalInterestAllTime, interestByIndex, minDueByIndex,
                    priorityList, startBal, result >>

\* line 169: the while condition fails
BuildScheduleAllocateDone ==
    /\ pc = "bs_allocate"
    /\ leftover <= EPSILON
    /\ pc' = "bs_apply"
    /\ UNCHANGED << storeVars, earlier, maxMonths, debtsInput, monthlyBudgetStr, strategy,
                    monthlyBudget, debts, workingDebts, schedule, months,
                    totalInterestAllTime, interestByIndex, minDueByIndex,
                    totalPaymentByIndex, extraByIndex, leftover, priorityList,
                    startBal, result >>

\* lines 196-243: apply payments, push the row, break when paid off
BuildScheduleApply ==
    /\ pc = "bs_apply"
    /\ LET n == Len(workingDebts)
           newBalances == [i \in 1..n |->
                              Max(0, workingDebts[i].balance + interestByIndex[i]
                                     - totalPaymentByIndex[i])]
           principal == [i \in 1..n |->
                              Max(0, totalPaymentByIndex[i] - interestByIndex[i])]
           totalBalanceStart == SumSeq([i \in 1..n |->
                                          IF Active(workingDebts[i])
                                          THEN workingDebts[i].balance ELSE 0])
           totalBalanceEnd == SumSeq(newBalances)
       IN  /\ startBal' = [i \in 1..n |-> workingDebts[i].balance]
           /\ workingDebts' = [i \in 1..n |->
                                 [workingDebts[i] EXCEPT !.balance = newBalances[i]]]
           /\ schedule' = Append(schedule,
                                 ScheduleMonth(months, SumSeq(totalPaymentByIndex),
                                               SumSeq(interestByIndex), SumSeq(principal),
                                               totalBalanceStart, totalBalanceEnd))
           /\ pc' = IF totalBalanceEnd <= EPSILON THEN "bs_return" ELSE "bs_loop"
    /\ UNCHANGED << storeVars, earlier, maxMonths, debtsInput, monthlyBudgetStr, strategy,
                    monthlyBudget, debts, months, totalInterestAllTime,
                    interestByIndex, minDueByIndex, totalPaymentByIndex,
                    extraByIndex, leftover, priorityList, result >>

\* line 246: after the loop (condition false, or one of the breaks)
BuildScheduleReturn ==
    /\ IF pc = "bs_loop" THEN ~DemoLoopCondition ELSE pc \in { "bs_return", "bs_broke" }
    /\ result' = Rows(schedule)
    /\ pc' = "bs_done"
    /\ UNCHANGED << storeVars, earlier, maxMonths, debtsInput, monthlyBudgetStr, strategy,
                    monthlyBudget, debts, workingDebts, schedule, months,
                    totalInterestAllTime, interestByIndex, minDueByIndex,
                    totalPaymentByIndex, extraByIndex, leftover, priorityList,
                    startBal >>

InitDemo ==
    /\ debtsInput \in { WithIds(l) : l \in DebtLists }
    /\ monthlyBudgetStr \in DemoBudgetChoices
    /\ strategy \in Strategies
    /\ pc = "start"
    /\ monthlyBudget = 0
    /\ debts = << >>
    /\ workingDebts = << >>
    /\ schedule = << >>
    /\ months = 0
    /\ totalInterestAllTime = 0
    /\ interestByIndex = << >>
    /\ minDueByIndex = << >>
    /\ totalPaymentByIndex = << >>
    /\ extraByIndex = << >>
    /\ leftover = 0
    /\ priorityList = << >>
    /\ startBal = << >>
    /\ maxMonths = MAX_MONTHS
    /\ result = [kind |-> "none"]
    /\ earlier = [kind |-> "none"]
    /\ ProviderUnmounted

NextDemo ==
    \/ Validate
    \/ BeginMonth
    \/ AllocatePass
    \/ AllocateDone
    \/ ApplyPayments
    \/ Return
    \/ BuildScheduleStart
    \/ BuildScheduleMonth
    \/ BuildScheduleAllocatePass
    \/ BuildScheduleAllocateDone
    \/ BuildScheduleApply
    \/ BuildScheduleReturn

SpecDemo == InitDemo /\ [][NextDemo]_vars

----------------------------------------------------------------------------
(* DebtProvider: first render, the load effect, the persist effect, the    *)
(* setters, re-render, and a refresh of the page.  State updates are       *)
(* queued in pending and take effect at the next render; an effect sees    *)
(* the state and the initialized flag of the render it belongs to.         *)

\* mutant: the persist effect does not look at initialized
PersistAlways(init) == TRUE

\* line 83: if (!initialized) return
PersistAllowed(init) == init

\* nothing is queued and no effect is scheduled
Quiescent == providerPc = "idle" /\ pending = << >> /\ ~effectDue

\* no engine call is running
EngineIdle ==
    /\ debtsInput = << >>
    /\ monthlyBudgetStr = Empty
    /\ strategy = "warrior"
    /\ pc = "idle"
    /\ monthlyBudget = 0
    /\ debts = << >>
    /\ workingDebts = << >>
    /\ schedule = << >>
    /\ months = 0
    /\ totalInterestAllTime = 0
    /\ interestByIndex = << >>
    /\ minDueByIndex = << >>
    /\ totalPaymentByIndex = << >>
    /\ extraByIndex = << >>
    /\ leftover = 0
    /\ priorityList = << >>
    /\ startBal = << >>
    /\ maxMonths = MAX_MONTHS
    /\ result = [kind |-> "none"]
    /\ earlier = [kind |-> "none"]

\* lines 57-58: the first render of a page load
InitStore ==
    /\ EngineIdle
    /\ state = defaultState
    /\ initialized = FALSE
    /\ pending = << >>
    /\ effectDue = FALSE
    /\ localStorage \in StoredChoices
    /\ providerPc = "mounted"
    /\ session = [NoSession EXCEPT !.number = 1, !.storedAtMount = localStorage]

\* a setter may be called by a child in its mount effect, or later by an
\* event handler
SetterCallable == providerPc \in { "mounted", "idle" } /\ session.calls < MaxCalls

\* lines 93-98
setDebts ==
    /\ SetterCallable
    /\ \E list \in DebtsArgs : pending' = Append(pending, SetUpdate("debts", list))
    /\ session' = [session EXCEPT !.calls = @ + 1]
    /\ UNCHANGED << engineVars, state, initialized, effectDue, localStorage,
                    providerPc >>

\* lines 100-105
setStrategy ==
    /\ SetterCallable
    /\ \E strat \in StrategyArgs :
          pending' = Append(pending, SetUpdate("strategy", strat))
    /\ session' = [session EXCEPT !.calls = @ + 1]
    /\ UNCHANGED << engineVars, state, initialized, effectDue, localStorage,
                    providerPc >>

\* lines 107-112
setExtraBudget ==
    /\ SetterCallable
    /\ \E amount \in ExtraBudgetArgs :
          pending' = Append(pending, SetUpdate("extraBudget", amount))
    /\ session' = [session EXCEPT !.calls = @ + 1]
    /\ UNCHANGED << engineVars, state, initialized, effectDue, localStorage,
                    providerPc >>

\* lines 114-119
setDashboardSummary ==
    /\ SetterCallable
    /\ \E summary \in SummaryArgs :
          pending' = Append(pending, SetUpdate("dashboardSummary", summary))
    /\ session' = [session EXCEPT !.calls = @ + 1]
    /\ UNCHANGED << engineVars, state, initialized, effectDue, localStorage,
                    providerPc >>

\* lines 61-79: the load effect of the mount
LoadEffect ==
    /\ providerPc = "mounted"
    /\ IF localStorage.t = "json"
       THEN /\ pending' = pending \o << MergeUpdate(localStorage.v), InitializedUpdate >>
            /\ session' = [session EXCEPT !.load = "merged"]
       ELSE /\ pending' = Append(pending, InitializedUpdate)
            /\ session' = [session EXCEPT !.load = localStorage.t]
    /\ providerPc' = "loaded"
    /\ UNCHANGED << engineVars, state, initialized, effectDue, localStorage >>

\* lines 82-91: the persist effect, after the load effect at mount and
\* after every render that changed state or initialized; setItem can throw
\* (storage full or unavailable), which is caught
PersistEffect ==
    /\ \/ providerPc = "loaded"
       \/ providerPc = "idle" /\ effectDue
    /\ IF PersistAllowed(initialized)
       THEN \E stored \in BOOLEAN :
               IF stored
               THEN /\ localStorage' = Stringify(state)
                    /\ session' = [session EXCEPT !.lastWrite = "ok"]
               ELSE /\ session' = [session EXCEPT !.lastWrite = "failed"]
                    /\ UNCHANGED localStorage
       ELSE UNCHANGED << localStorage, session >>
    /\ effectDue' = FALSE
    /\ providerPc' = "idle"
    /\ UNCHANGED << engineVars, state, initialized, pending >>

\* the queued updates are applied and the provider renders again; a state
\* updater makes a new state object, so the persist effect is scheduled
Render ==
    /\ providerPc = "idle"
    /\ ~effectDue
    /\ pending # << >>
    /\ state' = ApplyUpdates(state, pending)
    /\ initialized' = (initialized \/ \E k \in 1..Len(pending) :
                                        pending[k].op = "initialized")
    /\ effectDue' = TRUE
    /\ pending' = << >>
    /\ UNCHANGED << engineVars, localStorage, providerPc, session >>

\* the page is loaded again: memory is lost, localStorage is kept, and the
\* provider renders for the first time
Refresh ==
    /\ session.number < MaxSessions
    /\ state' = defaultState
    /\ initialized' = FALSE
    /\ pending' = << >>
    /\ effectDue' = FALSE
    /\ providerPc' = "mounted"
    /\ session' = [NoSession EXCEPT !.number = session.number + 1,
                                    !.storedAtMount = localStorage,
                                    !.settledBefore = (Quiescent /\ session.lastWrite = "ok"),
                                    !.stateBefore = state]
    /\ UNCHANGED << engineVars, localStorage >>

NextStore ==
    \/ setDebts
    \/ setStrategy
    \/ setExtraBudget
    \/ setDashboardSummary
    \/ LoadEffect
    \/ PersistEffect
    \/ Render
    \/ Refresh

SpecStore == InitStore /\ [][NextStore]_vars

TypeOK ==
    /\ pc \in { "start", "loop", "allocate", "apply", "return", "done",
               "bs_loop", "bs_allocate", "bs_apply", "bs_return", "bs_broke",
               "bs_done", "home_start", "home_loop", "home_extra", "home_return",
               "home_done", "idle" }
    /\ months \in 0..maxMonths
    /\ Len(workingDebts) <= MaxDebts

----------------------------------------------------------------------------
(* Properties of calculatePlan *)

DebtIndexes == 1..Len(workingDebts)

\* the month's payments have been assigned and not yet applied
Assigning == pc \in { "allocate", "apply" }

\* the month's payments have just been applied
Applied == pc \in { "loop", "return" } /\ months >= 1

\* the input got past the three validations
Validated == pc # "start" /\ (pc = "done" => result.kind = "ok" \/ result.error = "cap")

\* interest of the running month on debt i, from the start-of-month balance
MonthInterest(i) ==
    IF workingDebts[i].balance > EPSILON
    THEN (workingDebts[i].balance \div 1200) * workingDebts[i].apr
         + ((workingDebts[i].balance % 1200) * workingDebts[i].apr) \div 1200
    ELSE 0

\* C1: after every simulated month, and at every other point of the run,
\* every working balance is >= 0
C1_BalanceNonNegative ==
    \A i \in DebtIndexes : workingDebts[i].balance >= 0

\* a month in which a debt carrying interest was retired while another is left
C1_Witness ==
    /\ Applied
    /\ pc = "loop"
    /\ \E i, j \in DebtIndexes :
          /\ startBal[i] > EPSILON /\ workingDebts[i].apr > 0
          /\ workingDebts[i].balance = 0
          /\ workingDebts[j].balance > EPSILON

\* C2: in every month every active debt is assigned at least
\* min(minPayment, balance + interest); what the allocation adds is its extra
C2_AtLeastMinDue ==
    Assigning =>
        \A i \in DebtIndexes :
            workingDebts[i].balance > EPSILON =>
                LET due == IF workingDebts[i].minPayment <= workingDebts[i].balance + MonthInterest(i)
                           THEN workingDebts[i].minPayment
                           ELSE workingDebts[i].balance + MonthInterest(i)
                IN  /\ totalPaymentByIndex[i] >= due
                    /\ extraByIndex[i] >= 0
                    /\ totalPaymentByIndex[i] = due + extraByIndex[i]

\* one debt gets extra on top of its minimum while another, carrying interest,
\* gets exactly its minimum
C2_Witness ==
    /\ pc = "apply"
    /\ \E i, j \in DebtIndexes :
          /\ workingDebts[i].balance > EPSILON /\ extraByIndex[i] > 0
          /\ workingDebts[j].balance > EPSILON /\ extraByIndex[j] = 0
          /\ interestByIndex[j] > 0
          /\ totalPaymentByIndex[j] = workingDebts[j].minPayment

\* C3: no debt is assigned more than its start-of-month balance plus the
\* month's interest on it
C3_NeverOverpaid ==
    Assigning =>
        \A i \in DebtIndexes :
            totalPaymentByIndex[i] <= workingDebts[i].balance + MonthInterest(i)

\* the leftover retires the first debt exactly and the rest goes to the next
C3_Witness ==
    /\ pc = "apply"
    /\ \E i, j \in DebtIndexes :
          /\ i # j
          /\ extraByIndex[i] > 0 /\ interestByIndex[i] > 0
          /\ totalPaymentByIndex[i] = workingDebts[i].balance + interestByIndex[i]
          /\ extraByIndex[j] > 0
          /\ totalPaymentByIndex[j] < workingDebts[j].balance + interestByIndex[j]

\* what the input's fields parse to, and the minimums of the debts that remain
ParsedBudget == IF monthlyBudgetStr.kind = "num" THEN monthlyBudgetStr.val ELSE 0

ParsedField(f) == IF f.kind = "num" /\ f.val > 0 THEN f.val ELSE 0

Remains(i) == ParsedField(debtsInput[i].balance) > 0 /\ ParsedField(debtsInput[i].minPayment) > 0

RemainingMinimums ==
    SumSeq([i \in 1..Len(debtsInput) |->
               IF Remains(i) THEN ParsedField(debtsInput[i].minPayment) ELSE 0])

NoSchedule == schedule = << >> /\ months = 0

\* C4, as stated: minimums of the remaining debts above the budget give the
\* budget-below-minimums failure, whatever the budget is
C4_AsStated ==
    (pc = "done" /\ (\E i \in 1..Len(debtsInput) : Remains(i))
                 /\ RemainingMinimums > ParsedBudget + 1) =>
        (result = ErrorResult("below_minimums") /\ NoSchedule)

\* C4, amended: with a positive budget, minimums above budget + 1e-6 give the
\* budget-below-minimums failure and no schedule, and minimums up to
\* budget + 1e-6 (a budget equal to the sum among them) never give it
C4_BelowMinimums ==
    (pc = "done" /\ ParsedBudget > 0) =>
        /\ RemainingMinimums > ParsedBudget + 1 =>
              (result = ErrorResult("below_minimums") /\ NoSchedule)
        /\ RemainingMinimums <= ParsedBudget + 1 =>
              result # ErrorResult("below_minimums")

\* balance 500, minimum 50, budget 40 has failed on the minimums
C4_Witness ==
    /\ pc = "done"
    /\ Len(debtsInput) = 1
    /\ debtsInput[1].balance = Num(500000000)
    /\ debtsInput[1].minPayment = Num(50000000)
    /\ monthlyBudgetStr = Num(40000000)
    /\ result = ErrorResult("below_minimums")

\* a budget exactly equal to the sum of the minimums was simulated
C4_WitnessEqual ==
    /\ pc = "done"
    /\ RemainingMinimums = ParsedBudget
    /\ result.kind = "ok"

\* C5: a budget that is not finite or is <= 0 gives the positive-budget
\* failure without simulating, whatever the debt list is
C5_PositiveBudgetFirst ==
    (pc = "done" /\ (monthlyBudgetStr.kind # "num" \/ monthlyBudgetStr.val <= 0)) =>
        (result = ErrorResult("positive_budget") /\ NoSchedule)

\* the budget was rejected although the debts' minimums are above it
C5_Witness ==
    /\ pc = "done"
    /\ monthlyBudgetStr.kind = "inf"
    /\ RemainingMinimums > 0
    /\ result = ErrorResult("positive_budget")

\* the budget was rejected for an empty list
C5_WitnessEmpty ==
    /\ pc = "done"
    /\ monthlyBudgetStr = Num(0)
    /\ debtsInput = << >>
    /\ result = ErrorResult("positive_budget")

\* C6: with a positive budget, when no debt has balance > 0 and
\* minPayment > 0 the result is the no-payable-debts failure, no schedule
C6_NoPayableDebts ==
    (pc = "done" /\ ParsedBudget > 0 /\ \A i \in 1..Len(debtsInput) : ~Remains(i)) =>
        (result = ErrorResult("no_debts") /\ NoSchedule)

\* a list of two debts, both dropped, was rejected
C6_Witness ==
    /\ pc = "done"
    /\ Len(debtsInput) = 2
    /\ ParsedField(debtsInput[1].balance) = 0
    /\ ParsedField(debtsInput[2].minPayment) = 0
    /\ result = ErrorResult("no_debts")

\* months whose row ends with the total balance at or below epsilon
PaidOffMonths == { m \in 1..Len(schedule) : schedule[m].totalBalanceEnd <= EPSILON }

FirstPaidOffMonth == CHOOSE m \in PaidOffMonths : \A k \in PaidOffMonths : m <= k

\* C7: after validation, when the total balance falls to <= epsilon in a
\* month m <= cap the result is the success with months = m; the cap failure
\* is returned only when no month got there
C7_CapOnlyWithoutPayoff ==
    (pc = "done" /\ Validated /\ PaidOffMonths # {}) =>
        (result.kind = "ok" /\ result.months = FirstPaidOffMonth)

\* interest of one month on balance b at a percent a year
MonthlyInterest(b, a) ==
    IF b > EPSILON THEN (b \div 1200) * a + ((b % 1200) * a) \div 1200 ELSE 0

InputAprsNonNegative ==
    \A i \in 1..Len(debtsInput) :
        debtsInput[i].apr.kind = "num" => debtsInput[i].apr.val >= 0

\* C8, as stated: with non-negative APRs and the minimums covered, no
\* balance ends a month above where it started the month
C8_AsStated ==
    (Applied /\ InputAprsNonNegative) =>
        \A i \in DebtIndexes : workingDebts[i].balance <= startBal[i]

\* C8, amended: a debt whose minimum payment covers the month's interest on
\* it ends the month at or below the balance it started the month with
C8_NonIncreasingWhenMinCoversInterest ==
    Applied =>
        \A i \in DebtIndexes :
            workingDebts[i].minPayment >= MonthlyInterest(startBal[i], workingDebts[i].apr) =>
                workingDebts[i].balance <= startBal[i]

\* a debt carrying interest got only its minimum, which covers the interest,
\* and went down, while another debt is still being paid
C8_Witness ==
    /\ Applied
    /\ \E i, j \in DebtIndexes :
          /\ i # j
          /\ workingDebts[i].apr > 0
          /\ extraByIndex[i] = 0
          /\ workingDebts[i].minPayment >= MonthlyInterest(startBal[i], workingDebts[i].apr)
          /\ workingDebts[i].balance < startBal[i]
          /\ workingDebts[i].balance > EPSILON
          /\ workingDebts[j].balance > EPSILON

SumPrincipalPaid == SumSeq([m \in 1..Len(schedule) |-> schedule[m].principalPaid])

SumInterestPaid == SumSeq([m \in 1..Len(schedule) |-> schedule[m].interestPaid])

\* C9, as stated: on success the rows' principalPaid add up to the initial
\* total balance, less at most the dust left on the debts
C9_AsStated ==
    (pc = "done" /\ result.kind = "ok") =>
        /\ SumPrincipalPaid <= TotalBalance(debts)
        /\ SumPrincipalPaid >= TotalBalance(debts) - Len(debts) * EPSILON

MinimumsCoverFirstInterest ==
    \A i \in 1..Len(debts) :
        debts[i].minPayment >= MonthlyInterest(debts[i].balance, debts[i].apr)

\* C9, amended: on success the rows' principalPaid add up to at least the
\* initial total balance less the final balances, and to exactly that when
\* every debt's minimum payment covers its first month's interest; each
\* final balance is dust, and totalInterest is the sum of the rows' interest
C9_PrincipalReconciles ==
    (pc = "done" /\ result.kind = "ok") =>
        /\ SumPrincipalPaid >= TotalBalance(debts) - TotalBalance(workingDebts)
        /\ MinimumsCoverFirstInterest =>
              SumPrincipalPaid = TotalBalance(debts) - TotalBalance(workingDebts)
        /\ \A i \in DebtIndexes : workingDebts[i].balance <= EPSILON
        /\ result.totalInterest = SumInterestPaid

\* a success over several months on two debts, one carrying interest that
\* its minimum covers
C9_Witness ==
    /\ pc = "done"
    /\ result.kind = "ok"
    /\ result.months >= 3
    /\ Len(debts) = 2
    /\ MinimumsCoverFirstInterest
    /\ result.totalInterest > 0
    /\ SumPrincipalPaid = TotalBalance(debts)

\* C10, as stated: a budget strictly above the sum of the minimums always
\* ends in the success, never in the cap failure
C10_AsStated ==
    (pc = "done" /\ Validated /\ ParsedBudget > RemainingMinimums) =>
        result.kind = "ok"

\* months a debt needs at the most when it gets its minimum only
MonthsAtMinimum(d) ==
    LET step == d.minPayment - MonthlyInterest(d.balance, d.apr)
    IN  (d.balance + step - 1) \div step

\* C10, amended: when the budget covers the minimums and every debt's
\* minimum payment exceeds its first month's interest, every balance reaches
\* dust within K months, K the largest over the debts of
\* ceil(balance / (minPayment - interest)); the result is the success, with
\* months <= K, whenever K is below the cap
C10_TerminatesWhenMinimumsBeatInterest ==
    (pc = "done" /\ Validated
       /\ \A i \in 1..Len(debts) :
             /\ debts[i].minPayment > MonthlyInterest(debts[i].balance, debts[i].apr)
             /\ MonthsAtMinimum(debts[i]) < MAX_MONTHS) =>
        /\ result.kind = "ok"
        /\ \E j \in 1..Len(debts) : result.months <= MonthsAtMinimum(debts[j])
        /\ \A i \in DebtIndexes : workingDebts[i].balance <= EPSILON

\* a budget strictly above the minimums paid off a debt carrying interest in
\* several months, sooner than the minimum alone would
C10_Witness ==
    /\ pc = "done"
    /\ result.kind = "ok"
    /\ ParsedBudget > RemainingMinimums
    /\ result.months >= 2
    /\ \E i \in 1..Len(debts) :
          /\ debts[i].apr > 0
          /\ debts[i].minPayment > MonthlyInterest(debts[i].balance, debts[i].apr)
          /\ result.months < MonthsAtMinimum(debts[i])

\* the debts that got extra this month, and the first of them in the walk
GotExtra == { i \in DebtIndexes : extraByIndex[i] > 0 }

FirstRecipient ==
    priorityList[CHOOSE k \in 1..Len(priorityList) :
                    /\ priorityList[k] \in GotExtra
                    /\ \A h \in 1..(k - 1) : priorityList[h] \notin GotExtra]

\* what debt i still needs once its minimum due is assigned
RoomAfterMinimum(i) ==
    LET payoff == workingDebts[i].balance + MonthInterest(i)
    IN  payoff - (IF workingDebts[i].minPayment <= payoff
                  THEN workingDebts[i].minPayment ELSE payoff)

\* debt j is ranked strictly ahead of debt r by the strategy's keys
RankedAhead(strat, j, r) ==
    LET bj == workingDebts[j].balance
        br == workingDebts[r].balance
        aj == workingDebts[j].apr
        ar == workingDebts[r].apr
    IN  CASE strat = "warrior" -> bj < br \/ (bj = br /\ aj > ar)
          [] strat = "rebel"   -> aj > ar \/ (aj = ar /\ bj > br)
          [] strat = "wizard"  -> \/ MonthInterest(j) > MonthInterest(r)
                                  \/ (MonthInterest(j) = MonthInterest(r) /\ aj > ar)

\* C11, as stated: the first debt to get leftover is the top-ranked active
\* debt of the strategy
C11_AsStated ==
    (pc = "apply" /\ GotExtra # {}) =>
        \A j \in DebtIndexes :
            workingDebts[j].balance > EPSILON => ~RankedAhead(strategy, j, FirstRecipient)

\* C11, amended: the first debt to get leftover is the top-ranked one among
\* the active debts that the minimum due does not already retire (more than
\* epsilon is still needed after the minimum)
C11_TopRankedWithRoom ==
    (pc = "apply" /\ GotExtra # {}) =>
        \A j \in DebtIndexes :
            (workingDebts[j].balance > EPSILON /\ RoomAfterMinimum(j) > EPSILON) =>
                ~RankedAhead(strategy, j, FirstRecipient)

\* the second debt of the list is ranked first and takes the whole leftover,
\* the first debt has room and gets none
C11_Witness ==
    /\ pc = "apply"
    /\ GotExtra = { 2 }
    /\ workingDebts[1].balance > EPSILON
    /\ RoomAfterMinimum(1) > EPSILON
    /\ RankedAhead(strategy, 2, 1)
    /\ leftover <= EPSILON

\* budget not assigned to any debt at the end of the month's allocation
Unspent == monthlyBudget - SumSeq(totalPaymentByIndex)

\* what debt i still needs on top of what it is assigned
RoomLeft(i) == workingDebts[i].balance + MonthInterest(i) - totalPaymentByIndex[i]

\* C12: at the end of each month's allocation either the unallocated budget
\* is <= epsilon or every active debt is assigned its payoff amount to
\* within epsilon
C12_BudgetExhausted ==
    pc = "apply" =>
        \/ Unspent <= EPSILON
        \/ \A i \in DebtIndexes :
              workingDebts[i].balance > EPSILON => RoomLeft(i) <= EPSILON

\* budget is left over after every debt got its payoff amount, the leftover
\* having cascaded from one debt to the next
C12_Witness ==
    /\ pc = "apply"
    /\ Unspent > EPSILON
    /\ Cardinality(GotExtra) >= 2
    /\ \A i \in DebtIndexes : RoomLeft(i) = 0

\* the budget ran out on the first debt of the order, the next keeps room
C12_WitnessExhausted ==
    /\ pc = "apply"
    /\ Unspent = 0
    /\ GotExtra # {}
    /\ \E i \in DebtIndexes : workingDebts[i].balance > EPSILON /\ RoomLeft(i) > EPSILON

\* the call is the single-debt scenario: 1200 at 0%, minimum 100, budget 100
IsSingleDebtScenario ==
    /\ debtsInput = WithIds(SingleDebtScenario.debts)
    /\ monthlyBudgetStr = SingleDebtScenario.budget

\* C13: one debt of 1200 at APR 0 with minimum 100 and a budget of exactly
\* 100 succeeds under every strategy with months = 12, totalInterest = 0,
\* twelve rows, and a last row whose totalBalanceEnd is 0
C13_SingleDebtTwelveMonths ==
    (pc = "done" /\ IsSingleDebtScenario) =>
        /\ result.kind = "ok"
        /\ result.months = 12
        /\ result.totalInterest = 0
        /\ Len(result.schedule) = 12
        /\ result.schedule[12].totalBalanceEnd = 0
        /\ result.strategyUsed = strategy

\* the scenario has returned, here under the strategy that orders by interest
C13_Witness ==
    /\ pc = "done"
    /\ IsSingleDebtScenario
    /\ strategy = "wizard"
    /\ result.kind = "ok"
    /\ result.schedule[11].totalBalanceEnd = 100000000

\* the call is the two-debt scenario under warrior: A = 100, B = 1000,
\* both at 0% with minimum 10, budget 50
IsTwoDebtWarrior ==
    /\ debtsInput = WithIds(TwoDebtScenario.debts)
    /\ monthlyBudgetStr = TwoDebtScenario.budget
    /\ strategy = "warrior"

\* B (index 2) is assigned more than its minimum due this month
BGetsExtra == pc = "apply" /\ extraByIndex[2] > 0

\* C14 as stated: A's balance reaches zero in a month strictly earlier than
\* the first month in which B receives more than its minimum, i.e. whenever
\* B is assigned extra, A entered the month with balance zero
C14_AsStated ==
    (IsTwoDebtWarrior /\ BGetsExtra) => workingDebts[1].balance = 0

\* C14 amended: A's balance reaches zero no later than the first month in
\* which B receives more than its minimum, i.e. whenever B is assigned extra,
\* A's payment of that month covers all of A's balance and interest
C14_AClearsNoLaterThanBExtra ==
    (IsTwoDebtWarrior /\ BGetsExtra) =>
        totalPaymentByIndex[1] >= workingDebts[1].balance + interestByIndex[1]

\* month 3: A enters with 20, is paid 10 + 10, and the remaining 20 of
\* leftover goes to B in the same month
C14_Witness ==
    /\ IsTwoDebtWarrior
    /\ BGetsExtra
    /\ months = 3
    /\ workingDebts[1].balance = 20000000
    /\ totalPaymentByIndex[1] = 20000000
    /\ extraByIndex[2] = 20000000
    /\ \A k \in 1..Len(schedule) : schedule[k].month < 3

----------------------------------------------------------------------------
(* Properties relating two calls *)

\* the call that has just returned and the earlier one got the same budget
TwoCalls == pc = "done" /\ earlier.kind = "call" /\ earlier.budget = monthlyBudgetStr

\* the same debts and budget were run under rebel and under warrior, both
\* runs succeeded, and the payable debts do not all have the same APR
Compared ==
    /\ TwoCalls
    /\ earlier.debts = debtsInput
    /\ { strategy, earlier.strategy } = { "rebel", "warrior" }
    /\ result.kind = "ok"
    /\ earlier.result.kind = "ok"
    /\ \E i, j \in 1..Len(debts) : debts[i].apr # debts[j].apr

RebelInterest ==
    IF strategy = "rebel" THEN result.totalInterest ELSE earlier.result.totalInterest

WarriorInterest ==
    IF strategy = "warrior" THEN result.totalInterest ELSE earlier.result.totalInterest

\* neither run stopped with a balance of at most epsilon still owed
NoResidue ==
    /\ \A i \in 1..Len(workingDebts) : workingDebts[i].balance = 0
    /\ \A i \in 1..Len(earlier.balances) : earlier.balances[i] = 0

SameCall ==
    /\ TwoCalls
    /\ earlier.debts = debtsInput
    /\ earlier.strategy = strategy

Dropped(d) == parseNum(d.balance) <= 0 \/ parseNum(d.minPayment) <= 0

Kept(list) == SelectSeq(list, LAMBDA d : ~Dropped(d))

\* the call that has just returned got the input of the earlier call with
\* every such debt removed, and at least one was removed
CalledWithoutDropped ==
    /\ TwoCalls
    /\ earlier.strategy = strategy
    /\ debtsInput = Kept(earlier.debts)
    /\ debtsInput # earlier.debts

\* C18: debts with balance <= 0 or minPayment <= 0 contribute nothing: the
\* result for an input equals the result for that input without them
C18_DroppedContributeNothing == CalledWithoutDropped => result = earlier.result

\* a plan with interest was computed both with and without a dropped debt
\* whose minimum payment would not have fitted into the budget
C18_Witness ==
    /\ CalledWithoutDropped
    /\ result.kind = "ok"
    /\ result.months >= 2
    /\ SumSeq([i \in 1..Len(earlier.debts) |-> Max(0, parseNum(earlier.debts[i].minPayment))])
           > parseNum(monthlyBudgetStr) + TOLERANCE

----------------------------------------------------------------------------
(* Frame of calculatePlan *)

----------------------------------------------------------------------------
(* Where success is reported *)

Succeeded == pc = "done" /\ result.kind = "ok"

LastRow == result.schedule[Len(result.schedule)]

EarlierRowsOwe ==
    \A k \in 1..(Len(result.schedule) - 1) : result.schedule[k].totalBalanceEnd > EPSILON

\* C19 as stated: on success the last row has totalBalanceEnd <= epsilon and
\* every earlier row has totalBalanceEnd > epsilon
C19_AsStated ==
    (Succeeded /\ Len(result.schedule) > 0) =>
        (LastRow.totalBalanceEnd <= EPSILON /\ EarlierRowsOwe)

\* C19 amended: on success every debt's balance is <= epsilon, so the last
\* row, if there is one, has totalBalanceEnd <= epsilon times the number of
\* debts, and every earlier row has totalBalanceEnd > epsilon
C19_SuccessWhenEveryDebtPaid ==
    Succeeded =>
        /\ \A i \in DebtIndexes : workingDebts[i].balance <= EPSILON
        /\ Len(result.schedule) > 0 =>
              LastRow.totalBalanceEnd <= Len(workingDebts) * EPSILON
        /\ EarlierRowsOwe
        /\ result.months = Len(result.schedule)

\* success on a last row above epsilon: each debt ended at or below epsilon,
\* their sum did not
C19_Witness ==
    /\ Succeeded
    /\ Len(result.schedule) > 0
    /\ LastRow.totalBalanceEnd > EPSILON
    /\ \A i \in DebtIndexes : workingDebts[i].balance \in 1..EPSILON

\* success with no row at all: the only payable debt starts at or below epsilon
C19_WitnessNoRow == Succeeded /\ result.months = 0 /\ result.schedule = << >>

----------------------------------------------------------------------------
(* The strategies as the README describes them *)

\* the active debts the minimum due does not already retire
WithRoom == { j \in DebtIndexes :
                workingDebts[j].balance > EPSILON /\ RoomAfterMinimum(j) > EPSILON }

\* C20: as the README states the strategies, under Warrior the first debt
\* to get leftover has the highest APR among the debts that can take it,
\* and under Rebel it has the smallest balance among them
C20_AsReadmeStates ==
    (pc = "apply" /\ GotExtra # {}) =>
        /\ strategy = "warrior" =>
              \A j \in WithRoom : workingDebts[j].apr <= workingDebts[FirstRecipient].apr
        /\ strategy = "rebel" =>
              \A j \in WithRoom : workingDebts[j].balance >= workingDebts[FirstRecipient].balance

----------------------------------------------------------------------------
(* Shape of a successful result *)

\* C23: in every successful result the rows carry the months 1, 2, ...,
\* months in order, months is the number of rows, and totalInterest is the
\* sum of interestPaid over the rows
C23_RowsNumberedAndSummed ==
    Succeeded =>
        /\ result.months = Len(result.schedule)
        /\ \A k \in 1..Len(result.schedule) : result.schedule[k].month = k
        /\ result.totalInterest =
              SumSeq([k \in 1..Len(result.schedule) |-> result.schedule[k].interestPaid])

\* a plan of several months with interest in more than one of them
C23_Witness ==
    /\ Succeeded
    /\ result.months >= 3
    /\ result.schedule[1].interestPaid > 0
    /\ result.schedule[2].interestPaid > 0
    /\ result.schedule[3].month = 3

----------------------------------------------------------------------------
(* The month's payments against the budget *)

\* everything assigned to the debts this month, minimums and extras
TotalAssigned == SumSeq(totalPaymentByIndex)

\* C27: in every simulated month the payments assigned to all debts sum to
\* at most monthlyBudget, within the 1e-6 tolerance of the validation
C27_AssignedWithinBudget ==
    Assigning => TotalAssigned <= monthlyBudget + TOLERANCE

\* extras were handed out and the whole budget, and no more, is assigned
C27_Witness ==
    /\ pc = "apply"
    /\ Cardinality(GotExtra) >= 1
    /\ TotalAssigned = monthlyBudget
    /\ months >= 2

\* the minimums alone are above the budget by the tolerance
C27_WitnessTolerance ==
    /\ pc = "apply"
    /\ TotalAssigned = monthlyBudget + TOLERANCE

----------------------------------------------------------------------------
(* One target, then overflow *)

\* place of debt i in the month's strategy order
Rank(i) == CHOOSE k \in 1..Len(priorityList) : priorityList[k] = i

\* the debts that got extra and still end the month above epsilon
PartlyPaid == { i \in GotExtra : RoomLeft(i) > EPSILON }

\* C28: if a debt gets extra but is not retired to within epsilon that month,
\* no debt ranked after it gets extra and every active debt ranked before it
\* ends the month at or below epsilon; at most one debt a month is partly
\* paid with extra
C28_SingleTargetThenOverflow ==
    pc = "apply" =>
        /\ \A i \in PartlyPaid :
              \A k \in 1..Len(priorityList) :
                  /\ k > Rank(i) => extraByIndex[priorityList[k]] = 0
                  /\ k < Rank(i) => RoomLeft(priorityList[k]) <= EPSILON
        /\ Cardinality(PartlyPaid) <= 1

\* the first debt of the order was retired with extra and the overflow left
\* the second one partly paid
C28_Witness ==
    /\ pc = "apply"
    /\ Len(priorityList) = 2
    /\ priorityList[1] \in GotExtra
    /\ RoomLeft(priorityList[1]) = 0
    /\ PartlyPaid = { priorityList[2] }

----------------------------------------------------------------------------
(* Payoff time against the budget *)

\* the base plan and the plan with the extra have both succeeded
WhatIfDone ==
    /\ pc = "done"
    /\ earlier.kind = "call"
    /\ earlier.debts = debtsInput
    /\ earlier.strategy = strategy
    /\ earlier.result.kind = "ok"
    /\ result.kind = "ok"

\* monthsSaved of whatIfSummary
MonthsSaved == earlier.result.months - result.months

----------------------------------------------------------------------------
(* buildSchedule against calculatePlan *)

\* buildSchedule has returned, after calculatePlan on the same arguments
DemoDone == pc = "bs_done" /\ earlier.kind = "call"

\* calculatePlan returned one of its three validation errors
LibValidationFailure ==
    /\ earlier.result.kind = "error"
    /\ earlier.result.error \in { "positive_budget", "no_debts", "below_minimums" }

\* calculatePlan succeeded in fewer months than both caps
LibSucceededBelowCaps ==
    /\ earlier.result.kind = "ok"
    /\ earlier.result.months < Min(MAX_MONTHS, DemoMaxMonths)

\* row for row the same interest, principal and closing balance
SameRows ==
    /\ Len(result.schedule) = Len(earlier.result.schedule)
    /\ \A k \in 1..Len(result.schedule) :
          k <= Len(earlier.result.schedule) =>
             /\ result.schedule[k].totalInterest = earlier.result.schedule[k].interestPaid
             /\ result.schedule[k].totalPrincipal = earlier.result.schedule[k].principalPaid
             /\ result.schedule[k].totalBalanceEnd = earlier.result.schedule[k].totalBalanceEnd

\* no field of the arguments is written with thousands separators
NoSeparators ==
    /\ monthlyBudgetStr.kind # "grouped"
    /\ \A i \in 1..Len(debtsInput) :
          /\ debtsInput[i].balance.kind # "grouped"
          /\ debtsInput[i].apr.kind # "grouped"
          /\ debtsInput[i].minPayment.kind # "grouped"

\* C22: on every input on which calculatePlan succeeds in fewer months than
\* both caps, buildSchedule returns as many rows with the same interest,
\* principal and closing balance in each month; and when calculatePlan
\* returns a validation error, buildSchedule returns an empty schedule
C22_AsStated ==
    DemoDone =>
       /\ LibSucceededBelowCaps => SameRows
       /\ LibValidationFailure => result.schedule = << >>

\* the two engines agree on arguments written without separators
DemoAgreesWithoutSeparators ==
    (DemoDone /\ NoSeparators) =>
       /\ LibSucceededBelowCaps => SameRows
       /\ LibValidationFailure => result.schedule = << >>

----------------------------------------------------------------------------
(* The month's minimums against the budget *)

\* a month of either engine is being simulated: minDueByIndex is this month's
InMonth == pc \in { "allocate", "apply", "bs_allocate", "bs_apply", "bs_broke" }

\* sum of the minimum payments of the debts that passed the filter
OriginalMinimums == SumSeq([i \in 1..Len(debts) |-> debts[i].minPayment])

\* monthlyBudget - sumMinDue, before Math.max(0, ...)
RawLeftover == monthlyBudget - SumSeq(minDueByIndex)

\* C26 as stated: after validation, in every simulated month the month's
\* minimum dues sum to at most the original minimum payments and hence to at
\* most monthlyBudget + 1e-6; buildSchedule's break on the minimums never
\* fires; and leftover is never clamped from a negative value
C26_AsStated ==
    /\ InMonth => /\ SumSeq(minDueByIndex) <= OriginalMinimums
                  /\ OriginalMinimums <= monthlyBudget + TOLERANCE
                  /\ RawLeftover >= 0
    /\ pc # "bs_broke"

\* C26 amended: the same, except that leftover can be clamped from a
\* negative value no lower than -1e-6, the tolerance of the validation
C26_MinimumsWithinBudget ==
    /\ InMonth => /\ SumSeq(minDueByIndex) <= OriginalMinimums
                  /\ OriginalMinimums <= monthlyBudget + TOLERANCE
                  /\ RawLeftover >= -TOLERANCE
    /\ pc # "bs_broke"

\* a later month of buildSchedule in which a debt no longer owes its full
\* minimum, so that the month's dues are below the original minimums
C26_Witness ==
    /\ pc = "bs_allocate"
    /\ months >= 2
    /\ Len(workingDebts) = 2
    /\ SumSeq(minDueByIndex) < OriginalMinimums
    /\ RawLeftover > 0

\* a month entered with the budget below the minimums by the tolerance
C26_WitnessClamped ==
    /\ pc = "allocate"
    /\ RawLeftover = -TOLERANCE
    /\ leftover = 0

----------------------------------------------------------------------------
(* The Home page's calculatePlan *)

\* a month of the Home page's engine has been recorded
HomeApplied == pc \in { "home_loop", "home_return" } /\ months >= 1

\* what debt i was paid in the month: its minimum, capped at payoff, and
\* the extra it received
HomePaid(i) == minDueByIndex[i] + extraByIndex[i]

\* C24: in the Home page's calculatePlan every debt ends the month at
\* max(0, start balance + the month's interest on it - what it was paid),
\* the interest being added to the balance once
C24_AsStated ==
    HomeApplied =>
       \A i \in DebtIndexes :
          workingDebts[i].balance =
             Max(0, startBal[i] + interestByIndex[i] - HomePaid(i))

\* amount that would retire every debt this month
HomeNeeded == SumSeq(startBal) + SumSeq(interestByIndex)

\* C25: in the Home page's calculatePlan the budget is fully used in every
\* month, the minimum of a paid-off debt going to the others as extra: the
\* month's payments total min(monthlyBudget, amount needed to retire all)
C25_AsStated ==
    HomeApplied =>
       SumSeq(minDueByIndex) + SumSeq(extraByIndex) = Min(monthlyBudget, HomeNeeded)

----------------------------------------------------------------------------
(* DebtProvider and localStorage *)

\* the stored entry is the text of an object whose fields are those of st
HoldsState(stored, st) == stored.t = "json" /\ stored.v = st

\* the page was refreshed when everything had been written, and no setter
\* has been called since
RestoredAfterRefresh ==
    /\ Quiescent
    /\ session.number >= 2
    /\ session.settledBefore
    /\ session.calls = 0

\* every number of the state is one JSON can write
Representable(st) == st.extraBudget.t # "nan"

C30_NoWriteBeforeLoad ==
    /\ session.lastWrite # "none" => (session.load # "none" /\ initialized)
    /\ session.load = "none" => localStorage = session.storedAtMount
    /\ initialized => \A k \in 1..Len(pending) : pending[k].op # "merge"
    /\ (session.storedAtMount.t = "json" /\ session.calls = 0) =>
          /\ localStorage.t = "json"
          /\ \A f \in DOMAIN session.storedAtMount.v :
                localStorage.v[f] = session.storedAtMount.v[f]
    /\ Quiescent => initialized
    /\ (Quiescent /\ session.load \in { "missing", "unparsable" } /\ session.calls = 0)
          => state = defaultState

\* the stored strategy survived a mount during which a child called a
\* setter before the load effect ran
C30_Witness ==
    /\ Quiescent
    /\ session.load = "merged"
    /\ session.calls >= 1
    /\ session.lastWrite = "ok"
    /\ session.storedAtMount = Json([strategy |-> "wizard"])
    /\ state.strategy = "wizard"
    /\ state.extraBudget = JsNum(500)
    /\ HoldsState(localStorage, state)

\* an unparsable entry was replaced by the default state after the load
C30_WitnessUnparsable ==
    /\ Quiescent
    /\ session.load = "unparsable"
    /\ initialized
    /\ state = defaultState
    /\ HoldsState(localStorage, defaultState)

====
